---------------------------- MODULE Spec2Model ----------------------------
(***************************************************************************)
(* A model of the GraphQL language server of src/server.js: the document   *)
(* store, the scanner parseGraphQLDefinitions and the three query handlers *)
(* onDefinition, onHover and onDocumentSymbol.                             *)
(*                                                                         *)
(* A JavaScript string is a sequence of one-character strings, so that     *)
(* split, trim, startsWith and the regular expressions are computed        *)
(* character by character.  Offsets and line numbers are 0-based as in the *)
(* source; sequence positions are 1-based, so offset o is position o + 1.  *)
(* A nullable value is a sequence of length 0 (null) or 1 (the value).     *)
(***************************************************************************)
EXTENDS Integers, Sequences, FiniteSets, TLC

VARIABLES documents, response, scan, locate, span

vars == <<documents, response, scan, locate, span>>

(***************************************************************************)
(* Bounds of the model.                                                    *)
(***************************************************************************)
\* The largest number of lines of a document text the client sends.
MaxLines == 3

\* The largest number of lines of a text the scanner is run on by itself.
MaxScanLines == 4

\* The largest number of characters of a text the word loop is run on by itself.
MaxChars == 6

\* The largest number of lines of a document text in the model of the calls
\* with their locals.
MaxCallLines == 2

\* The largest number of characters of a text of the word loop, and of lines
\* of a text of the scan and of the span loops, in the model of the loops
\* that run to their ends.
MaxLoopChars == 4

MaxLoopLines == 2

(***************************************************************************)
(* Strings.                                                                *)
(***************************************************************************)
Null == <<>>

Some(v) == <<v>>

NL == "\n"

QUOTE == "\""

\* The backquote character, which a string of this language cannot hold.
BACKQUOTE == "BACKQUOTE"

\* The white space String.prototype.trim removes and \s matches (the part
\* of it that is one of the characters of the model's texts).
WhiteSpace == {" ", "\t", "\r", "\n"}

\* [a-zA-Z0-9_], the class of wordPattern, and \w of definitionPattern.
WordChars ==
  {"a","b","c","d","e","f","g","h","i","j","k","l","m",
   "n","o","p","q","r","s","t","u","v","w","x","y","z",
   "A","B","C","D","E","F","G","H","I","J","K","L","M",
   "N","O","P","Q","R","S","T","U","V","W","X","Y","Z",
   "0","1","2","3","4","5","6","7","8","9","_"}

\* s.startsWith(p)
StartsWith(s, p) ==
  /\ Len(p) <= Len(s)
  /\ \A i \in 1..Len(p) : s[i] = p[i]

\* The least position >= i of s that holds no white space (Len(s) + 1 if none).
RECURSIVE SkipSpace(_, _)
SkipSpace(s, i) ==
  IF i <= Len(s) /\ s[i] \in WhiteSpace THEN SkipSpace(s, i + 1) ELSE i

\* The greatest position <= i of s that holds no white space (0 if none).
RECURSIVE SkipSpaceBack(_, _)
SkipSpaceBack(s, i) ==
  IF i >= 1 /\ s[i] \in WhiteSpace THEN SkipSpaceBack(s, i - 1) ELSE i

\* s.trim()
Trim(s) == SubSeq(s, SkipSpace(s, 1), SkipSpaceBack(s, Len(s)))

\* The position after the maximal run of word characters that starts at i.
RECURSIVE WordEnd(_, _)
WordEnd(s, i) ==
  IF i <= Len(s) /\ s[i] \in WordChars THEN WordEnd(s, i + 1) ELSE i

\* The least position >= i of s that holds a word character (Len(s) + 1 if none).
RECURSIVE WordStart(_, _)
WordStart(s, i) ==
  IF i <= Len(s) /\ s[i] \notin WordChars THEN WordStart(s, i + 1) ELSE i

\* text.split('\n'), from position i on: the lines of the text, at least one.
RECURSIVE SplitFrom(_, _)
SplitFrom(text, i) ==
  LET RECURSIVE LineEnd(_)
      LineEnd(j) == IF j <= Len(text) /\ text[j] # NL THEN LineEnd(j + 1) ELSE j
      e == LineEnd(i)
  IN  IF e > Len(text)
        THEN <<SubSeq(text, i, Len(text))>>
        ELSE <<SubSeq(text, i, e - 1)>> \o SplitFrom(text, e + 1)

Split(text) == SplitFrom(text, 1)

\* lines.join('\n')
RECURSIVE Join(_)
Join(lines) ==
  IF Len(lines) = 0 THEN <<>>
  ELSE IF Len(lines) = 1 THEN lines[1]
  ELSE lines[1] \o <<NL>> \o Join(Tail(lines))

\* (s.match(/c/g) || []).length for a one-character pattern c.
CountChar(s, c) == Cardinality({i \in 1..Len(s) : s[i] = c})

TripleQuote == <<QUOTE, QUOTE, QUOTE>>

\* (s.match(/"""/g) || []).length from position i on: the matches of a
\* global pattern do not overlap, each search resumes after the last match.
RECURSIVE CountTripleQuote(_, _)
CountTripleQuote(s, i) ==
  IF i + 2 > Len(s) THEN 0
  ELSE IF SubSeq(s, i, i + 2) = TripleQuote
    THEN 1 + CountTripleQuote(s, i + 3)
    ELSE CountTripleQuote(s, i + 1)

(***************************************************************************)
(* The scanner.                                                            *)
(***************************************************************************)
\* The keyword alternatives of definitionPattern, in the pattern's order.
Keywords ==
  << <<"t","y","p","e">>,
     <<"e","n","u","m">>,
     <<"u","n","i","o","n">>,
     <<"i","n","t","e","r","f","a","c","e">>,
     <<"s","c","a","l","a","r">>,
     <<"i","n","p","u","t">> >>

\* KeywordMatches without the white space the pattern asks for after the
\* keyword: the bug of a pattern ^(type|...)\s*(\w+).
KeywordMatchesNoSpace(line, kw) ==
  /\ StartsWith(line, kw)
  /\ LET n == SkipSpace(line, Len(kw) + 1)
     IN  n <= Len(line) /\ line[n] \in WordChars

\* Whether /^kw\s+(\w+)([^a-zA-Z0-9_]|$)/ matches the line: the keyword at
\* the line's start, one or more white space, one or more word characters.
\* \w+ is greedy and takes the maximal run; the run is then followed by a
\* character outside the class or by the end of the line, and no shorter
\* run is, so the last group decides nothing but the extent of the name.
KeywordMatches(line, kw) ==
  /\ StartsWith(line, kw)
  /\ LET s == Len(kw) + 1
         n == SkipSpace(line, s)
     IN  /\ n > s
         /\ n <= Len(line)
         /\ line[n] \in WordChars

\* line.match(definitionPattern): null, or the captures kind and name.
definitionPattern(line) ==
  LET ks == {k \in 1..Len(Keywords) : KeywordMatches(line, Keywords[k])}
  IN  IF ks = {} THEN Null
      ELSE LET k == CHOOSE k \in ks : \A j \in ks : k <= j
               n == SkipSpace(line, Len(Keywords[k]) + 1)
           IN  Some([kind |-> Keywords[k],
                     name |-> SubSeq(line, n, WordEnd(line, n) - 1)])

\* The state of the scan before its first line.
ScanInit == [definitions |-> <<>>, currentDoc |-> <<>>, inMultiLineComment |-> FALSE]

\* ScanLine with the last test dropped: a blank line outside a block
\* comment clears currentDoc as other content does.
ScanLineBlankResets(st, line, index) ==
  LET trimmed == Trim(line)
      match == definitionPattern(line)
  IN  IF StartsWith(trimmed, TripleQuote)
        THEN [st EXCEPT !.currentDoc = Append(@, line),
                        !.inMultiLineComment =
                           IF CountTripleQuote(trimmed, 1) = 2 THEN @ ELSE ~@]
      ELSE IF st.inMultiLineComment
        THEN [st EXCEPT !.currentDoc = Append(@, line)]
      ELSE IF StartsWith(trimmed, <<"#">>)
        THEN [st EXCEPT !.currentDoc = Append(@, line)]
      ELSE IF match # Null
        THEN [st EXCEPT
                !.definitions = Append(@,
                   [kind |-> match[1].kind,
                    name |-> match[1].name,
                    line |-> index,
                    text |-> trimmed,
                    documentation |->
                       IF Len(st.currentDoc) > 0
                         THEN Some(Join(st.currentDoc)) ELSE Null]),
                !.currentDoc = <<>>]
      ELSE [st EXCEPT !.currentDoc = <<>>]

\* ScanLine without the test currentDoc.length > 0: the documentation of a
\* declaration is currentDoc.join('\n') even when currentDoc is empty.
ScanLineJoinsAlways(st, line, index) ==
  LET trimmed == Trim(line)
      match == definitionPattern(line)
  IN  IF StartsWith(trimmed, TripleQuote)
        THEN [st EXCEPT !.currentDoc = Append(@, line),
                        !.inMultiLineComment =
                           IF CountTripleQuote(trimmed, 1) = 2 THEN @ ELSE ~@]
      ELSE IF st.inMultiLineComment
        THEN [st EXCEPT !.currentDoc = Append(@, line)]
      ELSE IF StartsWith(trimmed, <<"#">>)
        THEN [st EXCEPT !.currentDoc = Append(@, line)]
      ELSE IF match # Null
        THEN [st EXCEPT
                !.definitions = Append(@,
                   [kind |-> match[1].kind,
                    name |-> match[1].name,
                    line |-> index,
                    text |-> trimmed,
                    documentation |-> Some(Join(st.currentDoc))]),
                !.currentDoc = <<>>]
      ELSE IF Len(trimmed) > 0
        THEN [st EXCEPT !.currentDoc = <<>>]
      ELSE st

\* ScanLine without the test quoteCount === 2: every line that begins with
\* the delimiter toggles inMultiLineComment.
ScanLineAlwaysToggles(st, line, index) ==
  LET trimmed == Trim(line)
      match == definitionPattern(line)
  IN  IF StartsWith(trimmed, TripleQuote)
        THEN [st EXCEPT !.currentDoc = Append(@, line),
                        !.inMultiLineComment = ~@]
      ELSE IF st.inMultiLineComment
        THEN [st EXCEPT !.currentDoc = Append(@, line)]
      ELSE IF StartsWith(trimmed, <<"#">>)
        THEN [st EXCEPT !.currentDoc = Append(@, line)]
      ELSE IF match # Null
        THEN [st EXCEPT
                !.definitions = Append(@,
                   [kind |-> match[1].kind,
                    name |-> match[1].name,
                    line |-> index,
                    text |-> trimmed,
                    documentation |->
                       IF Len(st.currentDoc) > 0
                         THEN Some(Join(st.currentDoc)) ELSE Null]),
                !.currentDoc = <<>>]
      ELSE IF Len(trimmed) > 0
        THEN [st EXCEPT !.currentDoc = <<>>]
      ELSE st

\* ScanLine with the test of the declaration pattern before the test of
\* inMultiLineComment: a declaration inside a block comment is emitted.
ScanLineMatchFirst(st, line, index) ==
  LET trimmed == Trim(line)
      match == definitionPattern(line)
  IN  IF StartsWith(trimmed, TripleQuote)
        THEN [st EXCEPT !.currentDoc = Append(@, line),
                        !.inMultiLineComment =
                           IF CountTripleQuote(trimmed, 1) = 2 THEN @ ELSE ~@]
      ELSE IF match # Null
        THEN [st EXCEPT
                !.definitions = Append(@,
                   [kind |-> match[1].kind,
                    name |-> match[1].name,
                    line |-> index,
                    text |-> trimmed,
                    documentation |->
                       IF Len(st.currentDoc) > 0
                         THEN Some(Join(st.currentDoc)) ELSE Null]),
                !.currentDoc = <<>>]
      ELSE IF st.inMultiLineComment
        THEN [st EXCEPT !.currentDoc = Append(@, line)]
      ELSE IF StartsWith(trimmed, <<"#">>)
        THEN [st EXCEPT !.currentDoc = Append(@, line)]
      ELSE IF Len(trimmed) > 0
        THEN [st EXCEPT !.currentDoc = <<>>]
      ELSE st

\* The callback of lines.forEach: the scan's state after the line at index.
ScanLine(st, line, index) ==
  LET trimmed == Trim(line)
      match == definitionPattern(line)
  IN  IF StartsWith(trimmed, TripleQuote)
        THEN [st EXCEPT !.currentDoc = Append(@, line),
                        !.inMultiLineComment =
                           IF CountTripleQuote(trimmed, 1) = 2 THEN @ ELSE ~@]
      ELSE IF st.inMultiLineComment
        THEN [st EXCEPT !.currentDoc = Append(@, line)]
      ELSE IF StartsWith(trimmed, <<"#">>)
        THEN [st EXCEPT !.currentDoc = Append(@, line)]
      ELSE IF match # Null
        THEN [st EXCEPT
                !.definitions = Append(@,
                   [kind |-> match[1].kind,
                    name |-> match[1].name,
                    line |-> index,
                    text |-> trimmed,
                    documentation |->
                       IF Len(st.currentDoc) > 0
                         THEN Some(Join(st.currentDoc)) ELSE Null]),
                !.currentDoc = <<>>]
      ELSE IF Len(trimmed) > 0
        THEN [st EXCEPT !.currentDoc = <<>>]
      ELSE st

\* The scan's state after the first n lines.
RECURSIVE ScanState(_, _)
ScanState(lines, n) ==
  IF n = 0 THEN ScanInit
  ELSE ScanLine(ScanState(lines, n - 1), lines[n], n - 1)

\* parseGraphQLDefinitions(document), of the document's text.
parseGraphQLDefinitions(text) ==
  LET lines == Split(text)
  IN  ScanState(lines, Len(lines)).definitions

(***************************************************************************)
(* The query handlers.                                                     *)
(***************************************************************************)
\* wordPatternExec for the pattern /[a-zA-Z0-9_]/g, without the +: a match
\* is one word character.
wordPatternExecOneChar(text, lastIndex) ==
  LET s == WordStart(text, lastIndex + 1)
  IN  IF s > Len(text) THEN Null
      ELSE Some([index |-> s - 1, word |-> <<text[s]>>])

\* wordPattern.exec(text) with the pattern's lastIndex at the 0-based offset
\* lastIndex: null, or the next maximal run of word characters (a greedy
\* [a-zA-Z0-9_]+ at the first position that starts one) and its index.
wordPatternExec(text, lastIndex) ==
  LET s == WordStart(text, lastIndex + 1)
  IN  IF s > Len(text) THEN Null
      ELSE Some([index |-> s - 1, word |-> SubSeq(text, s, WordEnd(text, s) - 1)])

\* The state of the loop "Get word at cursor" before its first test.
LoopInit == [lastIndex |-> 0, word |-> Null, done |-> FALSE]

\* LoopStep with the half-open test index <= offset < index + length.
LoopStepHalfOpen(text, offset, st) ==
  LET match == wordPatternExec(text, st.lastIndex)
  IN  IF match = Null
        THEN [st EXCEPT !.lastIndex = 0, !.done = TRUE]
      ELSE IF match[1].index <= offset /\ offset < match[1].index + Len(match[1].word)
        THEN [lastIndex |-> match[1].index + Len(match[1].word),
              word |-> Some(match[1].word), done |-> TRUE]
      ELSE [st EXCEPT !.lastIndex = match[1].index + Len(match[1].word)]

\* One test of while ((match = wordPattern.exec(text)) !== null) and, when
\* it holds, the body: exec leaves lastIndex at the end of the match (at 0
\* when there is none), and the loop breaks with the first match such that
\* index <= offset <= index + length.
LoopStep(text, offset, st) ==
  LET match == wordPatternExec(text, st.lastIndex)
  IN  IF match = Null
        THEN [st EXCEPT !.lastIndex = 0, !.done = TRUE]
      ELSE IF match[1].index <= offset /\ offset <= match[1].index + Len(match[1].word)
        THEN [lastIndex |-> match[1].index + Len(match[1].word),
              word |-> Some(match[1].word), done |-> TRUE]
      ELSE [st EXCEPT !.lastIndex = match[1].index + Len(match[1].word)]

\* The loop run from the state st to its end: the final word.
RECURSIVE wordPatternLoop(_, _, _)
wordPatternLoop(text, offset, st) ==
  IF st.done THEN st.word
  ELSE wordPatternLoop(text, offset, LoopStep(text, offset, st))

\* "Get word at cursor" of onDefinition and onHover.
WordAtCursor(text, offset) == wordPatternLoop(text, offset, LoopInit)

\* !word : null and the empty string are falsy.
NoWord(word) == word = Null \/ word[1] = <<>>

\* Find with the last element that satisfies the test.
FindLast(definitions, word) ==
  LET hits == {i \in 1..Len(definitions) : definitions[i].name = word}
  IN  IF hits = {} THEN Null
      ELSE Some(definitions[CHOOSE i \in hits : \A j \in hits : i >= j])

\* definitions.find(d => d.name === word): the first element that
\* satisfies the test, or undefined.
Find(definitions, word) ==
  LET hits == {i \in 1..Len(definitions) : definitions[i].name = word}
  IN  IF hits = {} THEN Null
      ELSE Some(definitions[CHOOSE i \in hits : \A j \in hits : i <= j])

\* DefRange with the length of the name for the length of the line's text.
DefRangeOfName(def) ==
  [start |-> [line |-> def.line, character |-> 0],
   end   |-> [line |-> def.line, character |-> Len(def.name)]]

\* The range onDefinition and onDocumentSymbol give a definition.
DefRange(def) ==
  [start |-> [line |-> def.line, character |-> 0],
   end   |-> [line |-> def.line, character |-> Len(def.text)]]

\* connection.onDefinition on a document's text: null or a location.
Definition(uri, text, offset) ==
  LET word == WordAtCursor(text, offset)
      def == Find(parseGraphQLDefinitions(text), word[1])
  IN  IF NoWord(word) THEN Null
      ELSE IF def = Null THEN Null
      ELSE Some([uri |-> uri, range |-> DefRange(def[1])])

\* The own properties of BUILTIN_SCALARS.
NameString == <<"S","t","r","i","n","g">>

NameInt == <<"I","n","t">>

NameFloat == <<"F","l","o","a","t">>

NameBoolean == <<"B","o","o","l","e","a","n">>

NameID == <<"I","D">>

\* Object.prototype, which the object literal BUILTIN_SCALARS inherits from:
\* every property of it is a function or an object, so truthy.  Each name
\* is given with the text its value has once appended to a string.
ObjectPrototype ==
  << [name |-> <<"c","o","n","s","t","r","u","c","t","o","r">>,
      text |-> "function Object() { [native code] }"],
     [name |-> <<"h","a","s","O","w","n","P","r","o","p","e","r","t","y">>,
      text |-> "function hasOwnProperty() { [native code] }"],
     [name |-> <<"i","s","P","r","o","t","o","t","y","p","e","O","f">>,
      text |-> "function isPrototypeOf() { [native code] }"],
     [name |-> <<"p","r","o","p","e","r","t","y","I","s","E","n","u","m","e","r","a","b","l","e">>,
      text |-> "function propertyIsEnumerable() { [native code] }"],
     [name |-> <<"t","o","L","o","c","a","l","e","S","t","r","i","n","g">>,
      text |-> "function toLocaleString() { [native code] }"],
     [name |-> <<"t","o","S","t","r","i","n","g">>,
      text |-> "function toString() { [native code] }"],
     [name |-> <<"v","a","l","u","e","O","f">>,
      text |-> "function valueOf() { [native code] }"],
     [name |-> <<"_","_","d","e","f","i","n","e","G","e","t","t","e","r","_","_">>,
      text |-> "function __defineGetter__() { [native code] }"],
     [name |-> <<"_","_","d","e","f","i","n","e","S","e","t","t","e","r","_","_">>,
      text |-> "function __defineSetter__() { [native code] }"],
     [name |-> <<"_","_","l","o","o","k","u","p","G","e","t","t","e","r","_","_">>,
      text |-> "function __lookupGetter__() { [native code] }"],
     [name |-> <<"_","_","l","o","o","k","u","p","S","e","t","t","e","r","_","_">>,
      text |-> "function __lookupSetter__() { [native code] }"],
     [name |-> <<"_","_","p","r","o","t","o","_","_">>,
      text |-> "[object Object]"] >>

\* BUILTIN_SCALARS[word]: the value of the property word, own or inherited,
\* or null (undefined) when there is none.  A description is kept as one
\* string, the last element of the hover text.
BUILTIN_SCALARS(word) ==
  IF word = NameString THEN Some("The String scalar type represents textual data, represented as UTF-8 character sequences.")
  ELSE IF word = NameInt THEN Some("The Int scalar type represents non-fractional signed whole numeric values. Int can represent values between -(2^31) and 2^31 - 1.")
  ELSE IF word = NameFloat THEN Some("The Float scalar type represents signed double-precision fractional values as specified by IEEE 754.")
  ELSE IF word = NameBoolean THEN Some("The Boolean scalar type represents true or false.")
  ELSE IF word = NameID THEN Some("The ID scalar type represents a unique identifier, often used to refetch an object or as the key for a cache. The ID type is serialized in the same way as a String.")
  ELSE IF \E i \in 1..Len(ObjectPrototype) : ObjectPrototype[i].name = word
    THEN Some(ObjectPrototype[CHOOSE i \in 1..Len(ObjectPrototype) :
                                 ObjectPrototype[i].name = word].text)
  ELSE Null

\* The opening fence of the hover text: three backquotes, graphql, newline.
FenceOpen == <<BACKQUOTE,BACKQUOTE,BACKQUOTE,"g","r","a","p","h","q","l",NL>>

\* The closing fence of the hover text: newline, three backquotes.
FenceClose == <<NL,BACKQUOTE,BACKQUOTE,BACKQUOTE>>

\* BraceDelta without the closing braces.
BraceDeltaOpenOnly(line) == CountChar(line, "{")

\* (line.match(/{/g) || []).length - (line.match(/}/g) || []).length
BraceDelta(line) == CountChar(line, "{") - CountChar(line, "}")

\* The loop while (endLine < lines.length && braceCount > 0) of onHover,
\* from its state (fullDef, endLine, braceCount): the final fullDef.
RECURSIVE BraceLoop(_, _, _, _)
BraceLoop(lines, fullDef, endLine, braceCount) ==
  IF endLine < Len(lines) /\ braceCount > 0
    THEN LET line == lines[endLine + 1]
         IN  BraceLoop(lines, fullDef \o <<NL>> \o line, endLine + 1,
                       braceCount + BraceDelta(line))
    ELSE fullDef

\* UnionLoop without the trim: a continuation line has to begin with the marker.
RECURSIVE UnionLoopUntrimmed(_, _, _)
UnionLoopUntrimmed(lines, fullDef, endLine) ==
  IF endLine < Len(lines) /\ StartsWith(lines[endLine + 1], <<"|">>)
    THEN UnionLoopUntrimmed(lines, fullDef \o <<NL>> \o lines[endLine + 1], endLine + 1)
    ELSE fullDef

\* The loop while (endLine < lines.length && lines[endLine].trim().startsWith('|')).
RECURSIVE UnionLoop(_, _, _)
UnionLoop(lines, fullDef, endLine) ==
  IF endLine < Len(lines) /\ StartsWith(Trim(lines[endLine + 1]), <<"|">>)
    THEN UnionLoop(lines, fullDef \o <<NL>> \o lines[endLine + 1], endLine + 1)
    ELSE fullDef

type == Keywords[1]

enum == Keywords[2]

union == Keywords[3]

interface == Keywords[4]

scalar == Keywords[5]

input == Keywords[6]

\* "Get full definition" of onHover: fullDef for the definition def.
FullDef(text, def) ==
  LET lines == Split(text)
      first == lines[def.line + 1]
  IN  IF def.kind \in {type, interface, input, enum}
        THEN BraceLoop(lines, first, def.line + 1, BraceDelta(first))
      ELSE IF def.kind = union
        THEN UnionLoop(lines, first, def.line + 1)
      ELSE first

\* if (def.documentation) : null and the empty string are falsy.
HasDocumentation(def) == def.documentation # Null /\ def.documentation[1] # <<>>

\* "Build hover content" of onHover.
HoverContent(text, def) ==
  FenceOpen
  \o (IF HasDocumentation(def) THEN def.documentation[1] \o <<NL>> ELSE <<>>)
  \o FullDef(text, def) \o FenceClose

\* The hover of a built-in scalar.
BuiltinContent(word) ==
  FenceOpen \o scalar \o <<" ">> \o word \o FenceClose \o <<NL, NL>>
  \o BUILTIN_SCALARS(word)

\* Hover with the declarations of the document looked up before BUILTIN_SCALARS.
HoverDeclarationFirst(text, offset) ==
  LET word == WordAtCursor(text, offset)
      def == Find(parseGraphQLDefinitions(text), word[1])
  IN  IF NoWord(word) THEN Null
      ELSE IF def # Null
        THEN Some([kind |-> "markdown", value |-> HoverContent(text, def[1])])
      ELSE IF BUILTIN_SCALARS(word[1]) # Null
        THEN Some([kind |-> "markdown", value |-> BuiltinContent(word[1])])
      ELSE Null

\* connection.onHover on a document's text: null or the hover.
Hover(text, offset) ==
  LET word == WordAtCursor(text, offset)
      def == Find(parseGraphQLDefinitions(text), word[1])
  IN  IF NoWord(word) THEN Null
      ELSE IF BUILTIN_SCALARS(word[1]) # Null
        THEN Some([kind |-> "markdown", value |-> BuiltinContent(word[1])])
      ELSE IF def = Null THEN Null
      ELSE Some([kind |-> "markdown", value |-> HoverContent(text, def[1])])

\* symbolKindMap with no entry for union: the default, SymbolKind.Class.
symbolKindMapNoUnion(kind) ==
  IF kind = type THEN "Class"
  ELSE IF kind = enum THEN "Enum"
  ELSE IF kind = interface THEN "Interface"
  ELSE IF kind = scalar THEN "Constant"
  ELSE IF kind = input THEN "Struct"
  ELSE "Class"

\* symbolKindMap[def.kind] || SymbolKind.Class, by the names of SymbolKind.
symbolKindMap(kind) ==
  IF kind = type THEN "Class"
  ELSE IF kind = enum THEN "Enum"
  ELSE IF kind = union THEN "Interface"
  ELSE IF kind = interface THEN "Interface"
  ELSE IF kind = scalar THEN "Constant"
  ELSE IF kind = input THEN "Struct"
  ELSE "Class"

\* The symbol record definitions.map gives a definition.
SymbolOf(def) ==
  [name |-> def.name,
   kind |-> symbolKindMap(def.kind),
   range |-> DefRange(def),
   selectionRange |-> DefRange(def)]

\* connection.onDocumentSymbol on a document's text.
DocumentSymbol(text) ==
  LET definitions == parseGraphQLDefinitions(text)
  IN  [i \in 1..Len(definitions) |-> SymbolOf(definitions[i])]

(***************************************************************************)
(* Texts: the sequences of lines a client types.                           *)
(***************************************************************************)
\* The sequences of at most n lines of L; the text of no line is empty.
LineSeqs(L, n) == UNION {[1..k -> L] : k \in 0..n}

\* The texts one line edit away from an open document of at most n lines:
\* a line of L inserted, or a line removed.
Edits(document, L, n) ==
  IF document = Null THEN {} ELSE
  LET ls == IF document[1] = <<>> THEN <<>> ELSE Split(document[1])
      len == Len(ls)
  IN  {Join(SubSeq(ls, 1, i) \o <<l>> \o SubSeq(ls, i + 1, len)) :
          i \in (IF len < n THEN 0..len ELSE {}), l \in L}
      \cup {Join(SubSeq(ls, 1, i - 1) \o SubSeq(ls, i + 1, len)) : i \in 1..len}

\* Lines of declarations of every kind, of names shared between kinds, of
\* names of BUILTIN_SCALARS and of Object.prototype, and of other words.
Lines ==
  { <<"t","y","p","e"," ","A">>,
    <<"e","n","u","m"," ","A">>,
    <<"u","n","i","o","n"," ","a">>,
    <<"i","n","t","e","r","f","a","c","e"," ","A">>,
    <<"s","c","a","l","a","r"," "," ","I","D"," ">>,
    <<"i","n","p","u","t"," ","a">>,
    <<" ","v","a","l","u","e","O","f",":","A">> }

\* Lines of bodies in braces, of unions and their continuation lines, and
\* of comments.
HoverLines ==
  { <<"{">>,
    <<"}">>,
    <<"#","c">>,
    <<"t","y","p","e"," ","A">>,
    <<"e","n","u","m"," ","B"," ","{">>,
    <<"u","n","i","o","n"," ","C">>,
    <<" ","|"," ","A">>,
    <<"s","c","a","l","a","r"," ","D">> }

\* Lines of comments of both styles, blank lines, declarations and other content.
ScanLines ==
  { <<>>,
    <<" ","#","c">>,
    TripleQuote,
    <<" ">> \o TripleQuote \o <<"d">> \o TripleQuote,
    <<"}">>,
    <<"t","y","p","e"," ","A">>,
    <<"t","y","p","e","A"," ","B">>,
    <<" ","e","n","u","m"," ","A">>,
    <<"i","n","p","u","t"," "," ","b","_","1","{">> }

\* Characters of a word (a letter, a digit, the underscore) and others.
Chars == {"U", "9", "_", " "}

\* The texts of at most n characters of the set C.
Strings(C, n) == UNION {[1..k -> C] : k \in 0..n}

(***************************************************************************)
(* The server: the document store and the message being answered.  The     *)
(* connection handles one message at a time, and writes the reply of a     *)
(* request before it reads the next message.                               *)
(***************************************************************************)
Uris == {"a.graphql"}

\* No scan of a text by itself is under way.
NoScan == [lines |-> <<>>, index |-> 0, state |-> ScanInit]

\* No run of the word loop by itself is under way.
NoLocate == [text |-> <<>>, offset |-> 0, state |-> LoopInit]

\* No run of the span loops of onHover by itself is under way.
NoSpan ==
  [lines |-> <<>>, kind |-> <<>>, fullDef |-> <<>>, endLine |-> 0, braceCount |-> 0,
   read |-> -1, error |-> FALSE, done |-> TRUE]

\* new TextDocuments(TextDocument): no document is open, no request pending.
Init ==
  /\ documents = [u \in Uris |-> Null]
  /\ response = Null
  /\ scan = NoScan
  /\ locate = NoLocate
  /\ span = NoSpan

\* textDocument/didOpen: the store takes the document, a text of at most n lines of L.
DidOpen(uri, L, n) ==
  /\ response = Null
  /\ documents[uri] = Null
  /\ \E ls \in LineSeqs(L, n) : documents' = [documents EXCEPT ![uri] = Some(Join(ls))]
  /\ UNCHANGED <<response, scan, locate, span>>

\* textDocument/didChange with full synchronisation: the store replaces the text.
DidChange(uri, L, n) ==
  /\ response = Null
  /\ documents[uri] # Null
  /\ \E text \in Edits(documents[uri], L, n) :
        documents' = [documents EXCEPT ![uri] = Some(text)]
  /\ UNCHANGED <<response, scan, locate, span>>

\* textDocument/didClose: the store forgets the document.
DidClose(uri) ==
  /\ response = Null
  /\ documents[uri] # Null
  /\ documents' = [documents EXCEPT ![uri] = Null]
  /\ UNCHANGED <<response, scan, locate, span>>

\* The offsets document.offsetAt can give: 0 .. text.length.
Offsets(document) == IF document = Null THEN {0} ELSE 0..Len(document[1])

\* connection.onDefinition
OnDefinition(uri) ==
  /\ response = Null
  /\ LET document == documents[uri]
     IN  \E offset \in Offsets(document) :
            response' = Some([method |-> "definition", uri |-> uri, offset |-> offset,
                              result |-> IF document = Null THEN Null
                                         ELSE Definition(uri, document[1], offset)])
  /\ UNCHANGED <<documents, scan, locate, span>>

\* connection.onHover
OnHover(uri) ==
  /\ response = Null
  /\ LET document == documents[uri]
     IN  \E offset \in Offsets(document) :
            response' = Some([method |-> "hover", uri |-> uri, offset |-> offset,
                              result |-> IF document = Null THEN Null
                                         ELSE Hover(document[1], offset)])
  /\ UNCHANGED <<documents, scan, locate, span>>

\* connection.onDocumentSymbol
OnDocumentSymbol(uri) ==
  /\ response = Null
  /\ LET document == documents[uri]
     IN  response' = Some([method |-> "documentSymbol", uri |-> uri, offset |-> 0,
                           result |-> IF document = Null THEN <<>>
                                      ELSE DocumentSymbol(document[1])])
  /\ UNCHANGED <<documents, scan, locate, span>>

\* The connection writes the handler's value as the reply of the request.
SendResponse ==
  /\ response # Null
  /\ response' = Null
  /\ UNCHANGED <<documents, scan, locate, span>>

\* The server with a client that opens texts of lines of L and edits them
\* by lines of L, up to n lines.
NextOver(L, n) ==
  \/ \E uri \in Uris : DidOpen(uri, L, n)
  \/ \E uri \in Uris : DidChange(uri, L, n)
  \/ \E uri \in Uris : DidClose(uri)
  \/ \E uri \in Uris : OnDefinition(uri)
  \/ \E uri \in Uris : OnHover(uri)
  \/ \E uri \in Uris : OnDocumentSymbol(uri)
  \/ SendResponse

Next == NextOver(Lines, MaxLines)

Spec == Init /\ [][Next]_vars

NextHover == NextOver(HoverLines, MaxLines)

SpecHover == Init /\ [][NextHover]_vars

(***************************************************************************)
(* The scanner by itself, line by line: lines.forEach of                   *)
(* parseGraphQLDefinitions on texts of lines of ScanLines.                    *)
(***************************************************************************)
InitScan ==
  /\ documents = [u \in Uris |-> Null]
  /\ response = Null
  /\ locate = NoLocate
  /\ span = NoSpan
  /\ \E ls \in LineSeqs(ScanLines, MaxScanLines) :
        scan = [lines |-> Split(Join(ls)), index |-> 0, state |-> ScanInit]

\* One call of the callback of lines.forEach.
ScanStep ==
  /\ scan.index < Len(scan.lines)
  /\ scan' = [scan EXCEPT !.index = @ + 1,
                          !.state = ScanLine(@, scan.lines[scan.index + 1], scan.index)]
  /\ UNCHANGED <<documents, response, locate, span>>

NextScan == ScanStep

SpecScan == InitScan /\ [][NextScan]_vars

(***************************************************************************)
(* The word loop by itself, test by test, on every text of characters of   *)
(* Chars and every offset of it.                                           *)
(***************************************************************************)
InitLocate ==
  /\ documents = [u \in Uris |-> Null]
  /\ response = Null
  /\ scan = NoScan
  /\ span = NoSpan
  /\ \E text \in Strings(Chars, MaxChars) : \E offset \in 0..Len(text) :
        locate = [text |-> text, offset |-> offset, state |-> LoopInit]

\* One test of the loop, and its body.
LocateStep ==
  /\ ~locate.state.done
  /\ locate' = [locate EXCEPT !.state = LoopStep(locate.text, locate.offset, @)]
  /\ UNCHANGED <<documents, response, scan, span>>

NextLocate == LocateStep

SpecLocate == InitLocate /\ [][NextLocate]_vars

(***************************************************************************)
(* Properties of the scanner, under SpecScan.                              *)
(***************************************************************************)
\* A line that opens or closes a block comment: its trimmed text begins
\* with the delimiter and does not hold it exactly twice.
ToggleLine(line) ==
  /\ StartsWith(Trim(line), TripleQuote)
  /\ CountTripleQuote(Trim(line), 1) # 2

\* Whether line i (from 1) of lines lies inside a block comment opened above it.
InBlockAt(lines, i) ==
  Cardinality({j \in 1..(i - 1) : ToggleLine(lines[j])}) % 2 = 1

\* Line i is a comment line: a line of a triple-quote block, or a # line.
CommentLine(lines, i) ==
  \/ StartsWith(Trim(lines[i]), TripleQuote)
  \/ InBlockAt(lines, i)
  \/ StartsWith(Trim(lines[i]), <<"#">>)

\* Line i is blank, and no line of a block comment.
BlankLine(lines, i) == ~CommentLine(lines, i) /\ Trim(lines[i]) = <<>>

\* The last line above line k that is not blank (0 when there is none).
LastNonBlankAbove(lines, k) ==
  CHOOSE e \in 0..(k - 1) :
    /\ \A i \in (e + 1)..(k - 1) : BlankLine(lines, i)
    /\ e = 0 \/ ~BlankLine(lines, e)

\* The first line of the contiguous run of comment lines that ends at line
\* e (e + 1 when line e is no comment line).
CommentRunStart(lines, e) ==
  CHOOSE j \in 1..(e + 1) :
    /\ \A i \in j..e : CommentLine(lines, i)
    /\ \A h \in 1..(j - 1) : \E i \in h..e : ~CommentLine(lines, i)

\* The first line of the run of comment lines and blank lines that ends
\* right above line k.
PendingRunStart(lines, k) ==
  CHOOSE j \in 1..k :
    /\ \A i \in j..(k - 1) : CommentLine(lines, i) \/ BlankLine(lines, i)
    /\ \A h \in 1..(j - 1) :
          \E i \in h..(k - 1) : ~(CommentLine(lines, i) \/ BlankLine(lines, i))

\* The comment lines among lines j .. k - 1, in order.
RECURSIVE CommentLinesIn(_, _, _)
CommentLinesIn(lines, j, k) ==
  IF j >= k THEN <<>>
  ELSE (IF CommentLine(lines, j) THEN <<lines[j]>> ELSE <<>>)
       \o CommentLinesIn(lines, j + 1, k)

\* The documentation made of the lines ls: none when there is no line.
DocumentationOf(ls) == IF ls = <<>> THEN Null ELSE Some(Join(ls))

\* C1, as stated: the documentation of every declaration emitted is the
\* single contiguous run of comment lines right above the declaration (the
\* blank lines between the run and the declaration left aside), joined by
\* newline; the comment lines of an earlier run, which a blank line or
\* other content separates from that run, are not part of it; it is none
\* when there is no such run.
C1_DocumentationIsImmediateRun ==
  \A n \in 1..Len(scan.state.definitions) :
    LET d == scan.state.definitions[n]
        e == LastNonBlankAbove(scan.lines, d.line + 1)
    IN  d.documentation =
          DocumentationOf(SubSeq(scan.lines, CommentRunStart(scan.lines, e), e))

\* C1, amended: the documentation of every declaration emitted is the
\* comment lines, joined by newline, of the run of comment lines and blank
\* lines right above the declaration: blank lines outside a block comment
\* neither end the run nor are part of the documentation; comment lines
\* above the nearest line that is neither blank nor a comment are not
\* included, and the documentation is none when the run holds no comment.
C1_DocumentationIsPendingComments ==
  \A n \in 1..Len(scan.state.definitions) :
    LET d == scan.state.definitions[n]
        k == d.line + 1
    IN  d.documentation =
          DocumentationOf(CommentLinesIn(scan.lines, PendingRunStart(scan.lines, k), k))

\* A declaration documented by two comment lines with a blank line between them.
C1_Witness ==
  /\ scan.index = Len(scan.lines)
  /\ \E n \in 1..Len(scan.state.definitions) :
        LET d == scan.state.definitions[n]
        IN  /\ d.line = 3
            /\ CommentLine(scan.lines, 1)
            /\ BlankLine(scan.lines, 2)
            /\ CommentLine(scan.lines, 3)
            /\ d.documentation = Some(Join(<<scan.lines[1], scan.lines[3]>>))

\* C5: the declarations emitted are in strictly ascending order of line,
\* and each one's kind and name are the keyword and the identifier the
\* declaration pattern captures on the raw line at its index: the line is
\* one of the six keywords, one or more white space, the name (one or more
\* word characters), and then its end or a character that is not one.
C5_SortedAndAsCaptured ==
  LET defs == scan.state.definitions
  IN  \A n \in 1..Len(defs) :
        LET d == defs[n]
            p == Len(d.kind)
            q == Len(d.name)
        IN  /\ \A m \in 1..(n - 1) : defs[m].line < d.line
            /\ d.line \in 0..(scan.index - 1)
            /\ \E k \in 1..Len(Keywords) : d.kind = Keywords[k]
            /\ q >= 1
            /\ \A i \in 1..q : d.name[i] \in WordChars
            /\ LET l == scan.lines[d.line + 1]
               IN  \E w \in 1..Len(l) :
                     /\ p + w + q <= Len(l)
                     /\ SubSeq(l, 1, p) = d.kind
                     /\ \A i \in (p + 1)..(p + w) : l[i] \in WhiteSpace
                     /\ SubSeq(l, p + w + 1, p + w + q) = d.name
                     /\ p + w + q = Len(l) \/ l[p + w + q + 1] \notin WordChars

\* A scan that ends with two declarations of different kinds, the second
\* after a line that holds a keyword and is no declaration.
C5_Witness ==
  /\ scan.index = Len(scan.lines)
  /\ Len(scan.state.definitions) = 2
  /\ scan.state.definitions[1].kind = type
  /\ scan.state.definitions[2].kind = input
  /\ scan.state.definitions[2].name = <<"b","_","1">>
  /\ scan.state.definitions[2].line = 3

(***************************************************************************)
(* Properties of the word loop, under SpecLocate.                          *)
(***************************************************************************)
\* The positions of text where a maximal run of word characters starts.
RunStarts(text) ==
  {s \in 1..Len(text) :
     text[s] \in WordChars /\ (s = 1 \/ text[s - 1] \notin WordChars)}

\* The last position of the maximal run of word characters that starts at s.
RunEnd(text, s) ==
  CHOOSE e \in s..Len(text) :
    /\ \A i \in s..e : text[i] \in WordChars
    /\ e = Len(text) \/ text[e + 1] \notin WordChars

\* The starts s of the maximal runs of text whose span [start, start + length]
\* holds offset, with start = s - 1 and start + length = RunEnd(text, s).
RunsAt(text, offset) ==
  {s \in RunStarts(text) : s - 1 <= offset /\ offset <= RunEnd(text, s)}

\* The word of the first run of text whose span holds offset, or none.
FirstRunAt(text, offset) ==
  LET rs == RunsAt(text, offset)
  IN  IF rs = {} THEN Null
      ELSE LET s == CHOOSE s \in rs : \A x \in rs : s <= x
           IN  Some(SubSeq(text, s, RunEnd(text, s)))

UUUU == <<"U","U","U","U">>

\* C3: the word loop ends with the first maximal run of word characters
\* such that start <= offset <= start + length, both ends inclusive, and
\* with none when there is no such run; on a word of four characters and a
\* space, every offset from 0 to 4 gives the word and offset 5 gives none.
C3_WordIsFirstRunAtOffset ==
  locate.state.done =>
    /\ locate.state.word = FirstRunAt(locate.text, locate.offset)
    /\ locate.text = UUUU \o <<" ">> =>
         locate.state.word = IF locate.offset <= 4 THEN Some(UUUU) ELSE Null

\* The loop ended with a word of four characters at the offset right after
\* its last character.
C3_Witness ==
  /\ locate.state.done
  /\ locate.text = UUUU \o <<" ">>
  /\ locate.offset = 4
  /\ locate.state.word = Some(UUUU)

(***************************************************************************)
(* Properties of the query handlers, under Spec and SpecHover.  While a    *)
(* reply is pending the store is as the handler read it.                   *)
(***************************************************************************)
\* The request answered by the pending reply is of method m, on an open document.
Answered(m) ==
  /\ response # Null
  /\ response[1].method = m
  /\ documents[response[1].uri] # Null

\* The text of the document of the pending reply, its lines, its
\* declarations, and the word the word loop finds at the offset (by C3 the
\* first run whose span holds it).
AnsweredText == documents[response[1].uri][1]

AnsweredLines == Split(AnsweredText)

AnsweredDefinitions == parseGraphQLDefinitions(AnsweredText)

AnsweredWord == WordAtCursor(AnsweredText, response[1].offset)

\* The declarations of defs with exactly the name.
Named(defs, name) == {i \in 1..Len(defs) : defs[i].name = name}

\* The declaration of the smallest line among those of defs with the name.
FirstNamed(defs, name) ==
  LET named == Named(defs, name)
  IN  defs[CHOOSE i \in named : \A j \in named : defs[i].line <= defs[j].line]

BuiltinNames == {NameString, NameInt, NameFloat, NameBoolean, NameID}

\* C2: when the word at the offset is one of the five built-in scalar
\* names, the hover is the fixed description of that name (the fenced
\* scalar declaration of the name, then the static text), whatever the
\* document declares.
C2_BuiltinHoverIsFixed ==
  Answered("hover") =>
    LET word == AnsweredWord
    IN  (word # Null /\ word[1] \in BuiltinNames) =>
          response[1].result =
            Some([kind |-> "markdown",
                  value |-> FenceOpen \o <<"s","c","a","l","a","r"," ">> \o word[1]
                            \o FenceClose \o <<NL, NL>> \o BUILTIN_SCALARS(word[1])])

\* A hover of ID in a document that declares a scalar named ID.
C2_Witness ==
  /\ Answered("hover")
  /\ AnsweredWord = Some(NameID)
  /\ Named(AnsweredDefinitions, NameID) # {}
  /\ response[1].result # Null
  /\ response[1].result[1].value[Len(response[1].result[1].value)] = BUILTIN_SCALARS(NameID)[1]

\* C4: the declaration both handlers resolve a name to is the one of the
\* smallest line among the declarations of exactly that name, whatever
\* their kinds, and none when no declaration has exactly that name.
C4_ResolverTakesFirstDeclaration ==
  (Answered("definition") \/ Answered("hover")) =>
    LET word == AnsweredWord
        defs == AnsweredDefinitions
        result == response[1].result
    IN  (word # Null /\ (response[1].method = "hover" => BUILTIN_SCALARS(word[1]) = Null)) =>
          IF Named(defs, word[1]) = {} THEN result = Null
          ELSE LET d == FirstNamed(defs, word[1])
               IN  /\ result # Null
                   /\ response[1].method = "definition" =>
                        result[1].range.start.line = d.line
                   /\ response[1].method = "hover" =>
                        result[1].value = HoverContent(AnsweredText, d)

\* A definition request on the name of the second of two declarations of
\* one name and different kinds, answered with the line of the first.
C4_Witness ==
  /\ Answered("definition")
  /\ AnsweredWord # Null
  /\ LET defs == AnsweredDefinitions
     IN  /\ Len(defs) >= 2
         /\ defs[1].name = defs[2].name
         /\ defs[1].kind # defs[2].kind
         /\ AnsweredWord[1] = defs[1].name
         /\ CountChar(SubSeq(AnsweredText, 1, response[1].offset), NL) = defs[2].line
         /\ response[1].result # Null
         /\ response[1].result[1].range.start.line = defs[1].line

\* C8: onDefinition answers a target exactly when there is a word at the
\* offset and a declaration of exactly that name; the target is in the
\* queried document, on the line of the declaration resolved, from
\* character 0 to the length of the trimmed text of that line; it answers
\* null in every other case.
C8_DefinitionTarget ==
  (response # Null /\ response[1].method = "definition") =>
    IF documents[response[1].uri] = Null THEN response[1].result = Null
    ELSE LET word == AnsweredWord
             defs == AnsweredDefinitions
         IN  IF word = Null \/ Named(defs, word[1]) = {}
               THEN response[1].result = Null
             ELSE LET d == FirstNamed(defs, word[1])
                  IN  response[1].result =
                        Some([uri |-> response[1].uri,
                              range |->
                                [start |-> [line |-> d.line, character |-> 0],
                                 end |-> [line |-> d.line,
                                          character |-> Len(Trim(AnsweredLines[d.line + 1]))]]])

\* A target on a line below the first whose trimmed text is shorter than the line.
C8_Witness ==
  /\ Answered("definition")
  /\ response[1].result # Null
  /\ response[1].result[1].range.start.line > 0
  /\ response[1].result[1].range.end.character
       < Len(AnsweredLines[response[1].result[1].range.start.line + 1])

\* The category of each kind of declaration.
Category(kind) ==
  CASE kind = <<"t","y","p","e">> -> "Class"
    [] kind = <<"e","n","u","m">> -> "Enum"
    [] kind = <<"u","n","i","o","n">> -> "Interface"
    [] kind = <<"i","n","t","e","r","f","a","c","e">> -> "Interface"
    [] kind = <<"s","c","a","l","a","r">> -> "Constant"
    [] kind = <<"i","n","p","u","t">> -> "Struct"

\* C9: onDocumentSymbol answers one symbol for each declaration of the
\* scan, in the scan's order, with the declaration's name, the category of
\* its kind, and as range and selection range the declaration's line from
\* character 0 to the length of its trimmed text; it answers the empty
\* sequence when there is no declaration, the empty document included.
C9_SymbolsMirrorDeclarations ==
  (response # Null /\ response[1].method = "documentSymbol") =>
    IF documents[response[1].uri] = Null THEN response[1].result = <<>>
    ELSE LET defs == AnsweredDefinitions
             symbols == response[1].result
         IN  /\ Len(symbols) = Len(defs)
             /\ AnsweredText = <<>> => symbols = <<>>
             /\ \A i \in 1..Len(defs) :
                  LET r == [start |-> [line |-> defs[i].line, character |-> 0],
                            end |-> [line |-> defs[i].line,
                                     character |-> Len(defs[i].text)]]
                  IN  symbols[i] = [name |-> defs[i].name,
                                    kind |-> Category(defs[i].kind),
                                    range |-> r,
                                    selectionRange |-> r]

\* The symbols of a union, a scalar and an input, in the order of their lines.
C9_Witness ==
  /\ Answered("documentSymbol")
  /\ Len(response[1].result) = 3
  /\ response[1].result[1].kind = "Interface"
  /\ response[1].result[1].name = <<"a">>
  /\ response[1].result[2].kind = "Constant"
  /\ response[1].result[2].range.end = [line |-> 1, character |-> 10]
  /\ response[1].result[3].kind = "Struct"

\* C10: a hover of a word that is neither one of the five built-in scalar
\* names nor the name of a declaration of the document answers null.
C10_OnlyFiveBuiltinNames ==
  Answered("hover") =>
    LET word == AnsweredWord
    IN  (word # Null /\ word[1] \notin BuiltinNames
           /\ Named(AnsweredDefinitions, word[1]) = {})
          => response[1].result = Null

\* The kinds of declaration with a body in braces.
BraceKinds ==
  { <<"t","y","p","e">>, <<"i","n","t","e","r","f","a","c","e">>,
    <<"i","n","p","u","t">>, <<"e","n","u","m">> }

\* The number of { less the number of } on lines k .. e.
Balance(lines, k, e) ==
  Cardinality({p \in UNION {{<<i, j>> : j \in 1..Len(lines[i])} : i \in k..e} :
                 lines[p[1]][p[2]] = "{"})
  - Cardinality({p \in UNION {{<<i, j>> : j \in 1..Len(lines[i])} : i \in k..e} :
                   lines[p[1]][p[2]] = "}"})

\* The last line of the span of a declaration on line k: the first line
\* from k on where the balance is no longer positive, or the last line.
SpanEnd(lines, k) ==
  CHOOSE e \in k..Len(lines) :
    /\ Balance(lines, k, e) <= 0 \/ e = Len(lines)
    /\ \A f \in k..(e - 1) : Balance(lines, k, f) > 0

\* The documentation of a declaration as the hover text shows it.
DocPart(d) == IF d.documentation = Null THEN <<>> ELSE d.documentation[1] \o <<NL>>

\* The hover of a word resolves to a declaration: the word is no property
\* of BUILTIN_SCALARS and names a declaration.
HoverResolves ==
  /\ Answered("hover")
  /\ LET word == AnsweredWord
     IN  /\ word # Null
         /\ BUILTIN_SCALARS(word[1]) = Null
         /\ Named(AnsweredDefinitions, word[1]) # {}

\* The declaration the hover of a word resolves to.
HoverDeclaration == FirstNamed(AnsweredDefinitions, AnsweredWord[1])

\* C6: the span in the hover of a type, interface, input or enum is the
\* line of the declaration followed by the next lines, each appended while
\* the balance of braces over the lines taken so far is positive and lines
\* remain: it ends with the line that brings the balance to 0, and with the
\* last line of the document when no line does.
C6_SpanFollowsBraceBalance ==
  HoverResolves =>
    LET d == HoverDeclaration
        lines == AnsweredLines
    IN  d.kind \in BraceKinds =>
          /\ response[1].result # Null
          /\ response[1].result[1].value =
               FenceOpen \o DocPart(d)
               \o Join(SubSeq(lines, d.line + 1, SpanEnd(lines, d.line + 1)))
               \o FenceClose

\* The hover of an enum whose body is balanced over three lines: the three lines.
C6_Witness ==
  /\ HoverResolves
  /\ HoverDeclaration.kind = enum
  /\ HoverDeclaration.line = 0
  /\ Len(AnsweredLines) = 3
  /\ Balance(AnsweredLines, 1, 2) > 0
  /\ Balance(AnsweredLines, 1, 3) = 0
  /\ response[1].result[1].value = FenceOpen \o AnsweredText \o FenceClose

\* The line where the body of the declaration on line k opens: line k when
\* it holds a brace, the next line when that one begins with a brace, and 0
\* when the declaration has no body.
BodyOpens(lines, k) ==
  IF CountChar(lines[k], "{") > 0 THEN k
  ELSE IF k < Len(lines) /\ StartsWith(Trim(lines[k + 1]), <<"{">>) THEN k + 1
  ELSE 0

\* Line c holds the brace that closes the body which opens on line o of the
\* declaration on line k.
BodyCloses(lines, k, o, c) ==
  /\ c >= o
  /\ Balance(lines, k, c) = 0
  /\ \A f \in o..(c - 1) : Balance(lines, k, f) > 0

\* The text x is a part of the text v.
Contains(v, x) ==
  \E p \in 1..(Len(v) - Len(x) + 1) : SubSeq(v, p, p + Len(x) - 1) = x

\* C7: the hover of the name of a type, interface, input or enum shows the
\* whole definition: every line from the line of the declaration to the
\* line of the brace that closes its body, wherever the body opens.
C7_HoverShowsWholeBody ==
  HoverResolves =>
    LET d == HoverDeclaration
        lines == AnsweredLines
        k == d.line + 1
        o == BodyOpens(lines, k)
    IN  (d.kind \in BraceKinds /\ o # 0) =>
          \A c \in o..Len(lines) :
            BodyCloses(lines, k, o, c) =>
              /\ response[1].result # Null
              /\ Contains(response[1].result[1].value, Join(SubSeq(lines, k, c)))

(***************************************************************************)
(* The calls of the handlers with their locals.  Each call of a handler    *)
(* makes its own pattern object and each call of the scanner its own       *)
(* definitions, currentDoc and inMultiLineComment.  Here the state keeps   *)
(* what the last call left in them: locate.state is the pattern and the    *)
(* word of the last word loop, scan.state the locals of the last scan.     *)
(***************************************************************************)
\* A line that opens or closes a block comment, and a declaration with a
\* field of a type of BUILTIN_SCALARS.
CallLines ==
  { TripleQuote,
    <<"t","y","p","e"," ","A",":","I","D">> }

\* One pattern object shared by the calls: its lastIndex is as the call
\* before left it.
wordPatternShared(last) == [lastIndex |-> last.lastIndex, word |-> Null, done |-> FALSE]

\* const wordPattern = /[a-zA-Z0-9_]+/g; let word = null : the literal is
\* evaluated at each call and gives a new object, its lastIndex 0, whatever
\* the state last of the pattern of the call before.
wordPattern(last) == LoopInit

\* The word loop run from the state st to its end: the final state.
RECURSIVE wordPatternRun(_, _, _)
wordPatternRun(text, offset, st) ==
  IF st.done THEN st
  ELSE wordPatternRun(text, offset, LoopStep(text, offset, st))

\* const definitions = []; let currentDoc = []; let inMultiLineComment = false :
\* the locals of a call of the scanner, whatever the state last of the
\* locals of the call before.
ScanLocals(last) == ScanInit

\* lines.forEach over the first n lines, from the state st of the locals.
RECURSIVE ScanFrom(_, _, _)
ScanFrom(st, lines, n) ==
  IF n = 0 THEN st
  ELSE ScanLine(ScanFrom(st, lines, n - 1), lines[n], n - 1)

\* What the call before left behind when a call begins: the lastIndex of
\* its pattern, the length of its currentDoc and its inMultiLineComment.
Stale ==
  [lastIndex |-> locate.state.lastIndex,
   currentDoc |-> Len(scan.state.currentDoc),
   inMultiLineComment |-> scan.state.inMultiLineComment]

\* The reply of a call, with what the call found left behind.
Reply(method, uri, offset, result) ==
  Some([method |-> method, uri |-> uri, offset |-> offset, result |-> result,
        stale |-> Stale])

\* A call of the handler of connection.onDefinition.
DefinitionCall(uri) ==
  /\ response = Null
  /\ LET document == documents[uri]
     IN  \E offset \in Offsets(document) :
           IF document = Null
             THEN /\ response' = Reply("definition", uri, offset, Null)
                  /\ UNCHANGED <<scan, locate>>
           ELSE
             LET text == document[1]
                 loop == wordPatternRun(text, offset, wordPattern(locate.state))
                 lines == Split(text)
                 locals == ScanFrom(ScanLocals(scan.state), lines, Len(lines))
                 def == Find(locals.definitions, loop.word[1])
             IN  /\ locate' = [locate EXCEPT !.state = loop]
                 /\ IF NoWord(loop.word)
                      THEN /\ response' = Reply("definition", uri, offset, Null)
                           /\ UNCHANGED scan
                      ELSE /\ response' =
                                Reply("definition", uri, offset,
                                      IF def = Null THEN Null
                                      ELSE Some([uri |-> uri, range |-> DefRange(def[1])]))
                           /\ scan' = [scan EXCEPT !.state = locals]
  /\ UNCHANGED <<documents, span>>

\* A call of the handler of connection.onHover.
HoverCall(uri) ==
  /\ response = Null
  /\ LET document == documents[uri]
     IN  \E offset \in Offsets(document) :
           IF document = Null
             THEN /\ response' = Reply("hover", uri, offset, Null)
                  /\ UNCHANGED <<scan, locate>>
           ELSE
             LET text == document[1]
                 loop == wordPatternRun(text, offset, wordPattern(locate.state))
                 lines == Split(text)
                 locals == ScanFrom(ScanLocals(scan.state), lines, Len(lines))
                 def == Find(locals.definitions, loop.word[1])
             IN  /\ locate' = [locate EXCEPT !.state = loop]
                 /\ IF NoWord(loop.word)
                      THEN /\ response' = Reply("hover", uri, offset, Null)
                           /\ UNCHANGED scan
                    ELSE IF BUILTIN_SCALARS(loop.word[1]) # Null
                      THEN /\ response' =
                                Reply("hover", uri, offset,
                                      Some([kind |-> "markdown",
                                            value |-> BuiltinContent(loop.word[1])]))
                           /\ UNCHANGED scan
                    ELSE /\ response' =
                              Reply("hover", uri, offset,
                                    IF def = Null THEN Null
                                    ELSE Some([kind |-> "markdown",
                                               value |-> HoverContent(text, def[1])]))
                         /\ scan' = [scan EXCEPT !.state = locals]
  /\ UNCHANGED <<documents, span>>

\* A call of the handler of connection.onDocumentSymbol.
DocumentSymbolCall(uri) ==
  /\ response = Null
  /\ LET document == documents[uri]
     IN  IF document = Null
           THEN /\ response' = Reply("documentSymbol", uri, 0, <<>>)
                /\ UNCHANGED scan
         ELSE
           LET lines == Split(document[1])
               locals == ScanFrom(ScanLocals(scan.state), lines, Len(lines))
           IN  /\ response' =
                    Reply("documentSymbol", uri, 0,
                          [i \in 1..Len(locals.definitions) |->
                             SymbolOf(locals.definitions[i])])
               /\ scan' = [scan EXCEPT !.state = locals]
  /\ UNCHANGED <<documents, locate, span>>

\* The server of the calls, with a client that opens and edits texts of
\* lines of CallLines.
NextCalls ==
  \/ \E uri \in Uris : DidOpen(uri, CallLines, MaxCallLines)
  \/ \E uri \in Uris : DidChange(uri, CallLines, MaxCallLines)
  \/ \E uri \in Uris : DidClose(uri)
  \/ \E uri \in Uris : DefinitionCall(uri)
  \/ \E uri \in Uris : HoverCall(uri)
  \/ \E uri \in Uris : DocumentSymbolCall(uri)
  \/ SendResponse

SpecCalls == Init /\ [][NextCalls]_vars

\* C11: whatever edits and queries came before, the reply of a query is the
\* value computed from the current text of the queried document and the
\* offset alone, by a word loop that starts at the start of the text and a
\* scan that starts with no pending comment outside a block comment; what
\* an earlier query left in its pattern and in its scanner locals has no
\* part in it.
C11_ReplyIsFunctionOfTextAndOffset ==
  response # Null =>
    LET r == response[1]
        document == documents[r.uri]
    IN  IF r.method = "definition"
          THEN r.result = IF document = Null THEN Null
                          ELSE Definition(r.uri, document[1], r.offset)
        ELSE IF r.method = "hover"
          THEN r.result = IF document = Null THEN Null
                          ELSE Hover(document[1], r.offset)
        ELSE r.result = IF document = Null THEN <<>>
                        ELSE DocumentSymbol(document[1])

\* A definition request answered with a target, by a call that found the
\* pattern of the call before left beyond the offset of the request, and
\* the scanner locals of the call before left inside a block comment with
\* pending comment lines.
C11_Witness ==
  /\ Answered("definition")
  /\ response[1].result # Null
  /\ response[1].stale.lastIndex > response[1].offset
  /\ response[1].stale.inMultiLineComment
  /\ response[1].stale.currentDoc > 0

(***************************************************************************)
(* The loops by themselves, step by step: the word loop on a text, the     *)
(* scan of a text, or the span loops of onHover for a declaration of a     *)
(* text.  A handler runs to its end once called, so each loop takes its    *)
(* next step as long as it has one.                                        *)
(***************************************************************************)
\* lines[i] for a 0-based index i: undefined (null) at an index >= lines.length.
LineAt(lines, i) == IF i >= 0 /\ i < Len(lines) THEN Some(lines[i + 1]) ELSE Null

\* The test of the brace loop without its bound on endLine.
BraceLoopTestUnbounded(lines, endLine, braceCount) == braceCount > 0

\* endLine < lines.length && braceCount > 0
BraceLoopTest(lines, endLine, braceCount) == endLine < Len(lines) /\ braceCount > 0

\* The state of "Get full definition" of onHover for the declaration def of
\* lines, before the first test of its loop: fullDef is the line of the
\* declaration, which is read; a scalar has no loop.
SpanInit(lines, def) ==
  [lines |-> lines,
   kind |-> def.kind,
   fullDef |-> lines[def.line + 1],
   endLine |-> def.line + 1,
   braceCount |-> IF def.kind \in {type, interface, input, enum}
                    THEN BraceDelta(lines[def.line + 1]) ELSE 0,
   read |-> def.line,
   error |-> FALSE,
   done |-> def.kind \notin {type, interface, input, enum, union}]

\* One test of the loop of a type, interface, input or enum, and its body:
\* the body reads lines[endLine]; the match of an undefined line throws.
BraceStep(st) ==
  IF BraceLoopTest(st.lines, st.endLine, st.braceCount)
    THEN LET line == LineAt(st.lines, st.endLine)
         IN  IF line = Null
               THEN [st EXCEPT !.read = st.endLine, !.error = TRUE, !.done = TRUE]
               ELSE [st EXCEPT !.read = st.endLine,
                               !.fullDef = @ \o <<NL>> \o line[1],
                               !.braceCount = @ + BraceDelta(line[1]),
                               !.endLine = @ + 1]
    ELSE [st EXCEPT !.done = TRUE]

\* One test of the loop of a union, and its body: the test reads
\* lines[endLine] when endLine < lines.length.
UnionStep(st) ==
  IF st.endLine < Len(st.lines)
    THEN IF StartsWith(Trim(st.lines[st.endLine + 1]), <<"|">>)
           THEN [st EXCEPT !.read = st.endLine,
                           !.fullDef = @ \o <<NL>> \o st.lines[st.endLine + 1],
                           !.endLine = @ + 1]
           ELSE [st EXCEPT !.read = st.endLine, !.done = TRUE]
    ELSE [st EXCEPT !.done = TRUE]

\* The word loop run on a text of characters of Chars and an offset of it.
InitWordLoop ==
  /\ documents = [u \in Uris |-> Null]
  /\ response = Null
  /\ scan = NoScan
  /\ span = NoSpan
  /\ \E text \in Strings(Chars, MaxLoopChars) : \E offset \in 0..Len(text) :
        locate = [text |-> text, offset |-> offset, state |-> LoopInit]

\* The scan run on a text of lines of ScanLines.
InitScanLoop ==
  /\ documents = [u \in Uris |-> Null]
  /\ response = Null
  /\ locate = NoLocate
  /\ span = NoSpan
  /\ \E ls \in LineSeqs(ScanLines, MaxLoopLines) :
        scan = [lines |-> Split(Join(ls)), index |-> 0, state |-> ScanInit]

\* The span loops run on a declaration of a text of lines of HoverLines.
InitSpan ==
  /\ documents = [u \in Uris |-> Null]
  /\ response = Null
  /\ scan = NoScan
  /\ locate = NoLocate
  /\ \E ls \in LineSeqs(HoverLines, MaxLoopLines) :
       LET lines == Split(Join(ls))
           definitions == parseGraphQLDefinitions(Join(ls))
       IN  \E n \in 1..Len(definitions) : span = SpanInit(lines, definitions[n])

\* One test of the span loop of the declaration's kind.
SpanStep ==
  /\ ~span.done
  /\ span' = IF span.kind = union THEN UnionStep(span) ELSE BraceStep(span)
  /\ UNCHANGED <<documents, response, scan, locate>>

InitLoops == InitWordLoop \/ InitScanLoop \/ InitSpan

NextLoops == LocateStep \/ ScanStep \/ SpanStep

SpecLoops ==
  /\ InitLoops
  /\ [][NextLoops]_vars
  /\ WF_vars(LocateStep) /\ WF_vars(ScanStep) /\ WF_vars(SpanStep)

\* The loops are within their texts: the word loop's position is at most
\* the length of the text, the scan has taken at most every line, the span
\* loops have taken lines up to the last at most, have read no line at an
\* index >= the number of lines, and have raised no error.
LoopsWithinText ==
  /\ locate.state.lastIndex <= Len(locate.text)
  /\ scan.index <= Len(scan.lines)
  /\ Len(scan.state.definitions) <= scan.index
  /\ span.endLine <= Len(span.lines)
  /\ span.read < Len(span.lines)
  /\ ~span.error

\* Each step of a loop that does not end it takes at least one character or
\* one line more: the word loop moves its position forward, the scan and
\* the span loops go to the next line.
LoopsAdvance ==
  /\ locate' # locate =>
        locate'.state.done \/ locate'.state.lastIndex > locate.state.lastIndex
  /\ scan' # scan => scan'.index = scan.index + 1
  /\ span' # span => span'.done \/ span'.endLine = span.endLine + 1

\* Every loop has ended.
LoopsDone ==
  /\ locate.state.done
  /\ scan.index = Len(scan.lines)
  /\ span.done

\* C12: on every text, malformed ones included, the word loop, the scan
\* and both span loops end; each step that does not end a loop takes a
\* character or a line more and none goes beyond the text, so a loop ends
\* within one step for each character or line; the span loops read no line
\* at an index >= the number of lines and raise no error.
C12_LoopsTerminateWithinText ==
  /\ []LoopsWithinText
  /\ [][LoopsAdvance]_vars
  /\ <>[]LoopsDone

\* The brace loop of an enum whose braces are never closed, ended at the
\* last line of a text of two lines with the braces unbalanced.
C12_Witness ==
  /\ span.done
  /\ span.kind = enum
  /\ span.braceCount > 1
  /\ Len(span.lines) = 2
  /\ span.endLine = Len(span.lines)
  /\ span.read = Len(span.lines) - 1

(***************************************************************************)
(* Properties of the steps of the scan, under SpecScan.                    *)
(***************************************************************************)
\* The line a step of the scan processes, and whether the declaration
\* pattern matches it.
ScannedLine == scan.lines[scan.index + 1]

ScannedLineMatches == definitionPattern(ScannedLine) # Null

\* A step of the scan emits a declaration exactly when the line matches the
\* declaration pattern and inMultiLineComment is false before the step; the
\* declaration is one, of that line, added at the end; a line that matches
\* while inMultiLineComment is true is appended to currentDoc and leaves
\* the declarations and the flag alone.
EmitsIffPatternOutsideBlock ==
  scan' # scan =>
    LET st == scan.state
        after == scan'.state
    IN  /\ (after.definitions # st.definitions)
           <=> (ScannedLineMatches /\ ~st.inMultiLineComment)
        /\ after.definitions # st.definitions =>
             /\ Len(after.definitions) = Len(st.definitions) + 1
             /\ SubSeq(after.definitions, 1, Len(st.definitions)) = st.definitions
             /\ after.definitions[Len(after.definitions)].line = scan.index
        /\ (ScannedLineMatches /\ st.inMultiLineComment) =>
             /\ after.currentDoc = Append(st.currentDoc, ScannedLine)
             /\ after.inMultiLineComment

\* C13: a line produces a declaration if and only if it matches the
\* declaration pattern and the scan is outside a block comment when it
\* processes the line; a matching line inside a block comment is appended
\* to the pending comment lines and emits nothing, so no declaration is
\* emitted below a block comment that is never closed.
C13_DeclarationIffPatternOutsideBlock == [][EmitsIffPatternOutsideBlock]_vars

\* A scan ended inside a block comment that was never closed, with no
\* declaration, the last line one that matches the declaration pattern and
\* is the last of the pending comment lines.
C13_Witness ==
  /\ scan.index = Len(scan.lines)
  /\ scan.index >= 2
  /\ scan.state.inMultiLineComment
  /\ scan.state.definitions = <<>>
  /\ definitionPattern(scan.lines[scan.index]) # Null
  /\ scan.state.currentDoc # <<>>
  /\ scan.state.currentDoc[Len(scan.state.currentDoc)] = scan.lines[scan.index]

\* The lines among the first n of lines whose trimmed text begins with the
\* delimiter and does not hold it exactly twice.
TogglesIn(lines, n) == {i \in 1..n : ToggleLine(lines[i])}

\* The flag after the first n lines of a scan, told from the lines alone:
\* whether the number of such lines among them is odd.
FlagAfter(lines, n) == Cardinality(TogglesIn(lines, n)) % 2 = 1

\* C14: at every point of the scan, inMultiLineComment is true exactly when
\* the number of lines processed so far whose trimmed text begins with the
\* triple-quote delimiter and does not hold the delimiter exactly twice is
\* odd; a line that is no such line, the one-line comment that holds the
\* delimiter twice included, leaves the flag as it was before the line,
\* true or false.
C14_FlagIsParityOfToggleLines ==
  /\ scan.state.inMultiLineComment = FlagAfter(scan.lines, scan.index)
  /\ (scan.index >= 1 /\ ~ToggleLine(scan.lines[scan.index])) =>
       scan.state.inMultiLineComment = FlagAfter(scan.lines, scan.index - 1)

\* A scan inside a block comment after three lines: the delimiter, a
\* one-line comment that holds the delimiter twice, and a third line.
C14_Witness ==
  /\ scan.index = 3
  /\ scan.lines[1] = TripleQuote
  /\ StartsWith(Trim(scan.lines[2]), TripleQuote)
  /\ CountTripleQuote(Trim(scan.lines[2]), 1) = 2
  /\ ~StartsWith(Trim(scan.lines[3]), TripleQuote)
  /\ scan.state.inMultiLineComment
  /\ Len(scan.state.currentDoc) = 3

\* A line of other content: its trimmed text is not empty, begins neither
\* with the delimiter nor with #, and the declaration pattern does not
\* match the line.
OtherContent(line) ==
  /\ Trim(line) # <<>>
  /\ ~StartsWith(Trim(line), TripleQuote)
  /\ ~StartsWith(Trim(line), <<"#">>)
  /\ definitionPattern(line) = Null

\* A step of the scan outside a block comment: on a line whose trimmed text
\* is empty it changes nothing of the scanner's state; on a line of other
\* content it empties currentDoc and changes nothing else.
BlankKeepsContentClears ==
  (scan' # scan /\ ~scan.state.inMultiLineComment) =>
    /\ Trim(ScannedLine) = <<>> => scan'.state = scan.state
    /\ OtherContent(ScannedLine) =>
         scan'.state = [scan.state EXCEPT !.currentDoc = <<>>]

\* The documentation of a declaration holds no comment line from above a
\* line of other content that lies outside a block comment above it: it is
\* made of comment lines below that line.
DocumentationIsBelowContent ==
  \A n \in 1..Len(scan.state.definitions) :
    LET d == scan.state.definitions[n]
        k == d.line + 1
    IN  \A j \in 1..(k - 1) :
          (OtherContent(scan.lines[j]) /\ ~InBlockAt(scan.lines, j)) =>
            d.documentation = DocumentationOf(CommentLinesIn(scan.lines, j + 1, k))
            \/ \E i \in (j + 1)..(k - 1) :
                 d.documentation = DocumentationOf(CommentLinesIn(scan.lines, i + 1, k))

\* C15: outside a block comment a line whose trimmed text is empty leaves
\* the pending comment lines, the flag and the declarations unchanged; a
\* line of non-empty trimmed text that is neither a comment line nor a
\* declaration empties the pending comment lines and changes nothing else,
\* so a later declaration gets only comment lines seen after that line.
C15_BlankKeepsContentClears ==
  /\ [][BlankKeepsContentClears]_vars
  /\ []DocumentationIsBelowContent

\* A declaration on the fourth line whose documentation is the comment on
\* the third line alone: the comment on the first line was dropped by the
\* line of other content on the second.
C15_Witness ==
  /\ scan.index = 4
  /\ StartsWith(Trim(scan.lines[1]), <<"#">>)
  /\ OtherContent(scan.lines[2])
  /\ StartsWith(Trim(scan.lines[3]), <<"#">>)
  /\ Len(scan.state.definitions) = 1
  /\ scan.state.definitions[1].line = 3
  /\ scan.state.definitions[1].documentation = Some(scan.lines[3])

(***************************************************************************)
(* Properties of the span of a union and of a scalar, under SpecHover.     *)
(***************************************************************************)
\* Line i of lines is a continuation line: its trimmed text begins with |.
Continuation(lines, i) == StartsWith(Trim(lines[i]), <<"|">>)

\* The last line of the maximal run of continuation lines right below line
\* k (k itself when the line below is none, or there is no line below).
UnionEnd(lines, k) ==
  CHOOSE e \in k..Len(lines) :
    /\ \A i \in (k + 1)..e : Continuation(lines, i)
    /\ e = Len(lines) \/ ~Continuation(lines, e + 1)

\* C16: the span in the hover of a union is the line of the declaration
\* followed by exactly the maximal run of the lines right below it whose
\* trimmed text begins with |, up to the first line that does not or to
\* the end of the document, whatever braces the lines hold; the span in
\* the hover of a scalar is the line of the declaration alone, whatever
\* follows it.
C16_UnionAndScalarSpan ==
  HoverResolves =>
    LET d == HoverDeclaration
        lines == AnsweredLines
        k == d.line + 1
    IN  /\ d.kind = <<"u","n","i","o","n">> =>
             /\ response[1].result # Null
             /\ response[1].result[1].value =
                  FenceOpen \o DocPart(d)
                  \o Join(SubSeq(lines, k, UnionEnd(lines, k))) \o FenceClose
        /\ d.kind = <<"s","c","a","l","a","r">> =>
             /\ response[1].result # Null
             /\ response[1].result[1].value =
                  FenceOpen \o DocPart(d) \o lines[k] \o FenceClose

\* The hover of a union on the first of three lines, the second a
\* continuation line and the third not: the first two lines.
C16_Witness ==
  /\ HoverResolves
  /\ HoverDeclaration.kind = union
  /\ HoverDeclaration.line = 0
  /\ Len(AnsweredLines) = 3
  /\ Continuation(AnsweredLines, 2)
  /\ ~Continuation(AnsweredLines, 3)
  /\ response[1].result[1].value =
       FenceOpen \o AnsweredLines[1] \o <<NL>> \o AnsweredLines[2] \o FenceClose

(***************************************************************************)
(* onDefinition and onHover on one document and one offset, under Spec.    *)
(***************************************************************************)
\* The value of onDefinition for the document and the offset of the pending reply.
DefinitionOfAnswered == Definition(response[1].uri, AnsweredText, response[1].offset)

\* The declaration of the answered document on the 0-based line l.
DeclarationOnLine(l) ==
  LET defs == AnsweredDefinitions
  IN  defs[CHOOSE i \in 1..Len(defs) : defs[i].line = l]

\* The hover text begins, after the fence and the documentation, with the
\* line l of the document.
HoverStartsAtLine(value, l) ==
  StartsWith(value, FenceOpen \o DocPart(DeclarationOnLine(l)) \o AnsweredLines[l + 1])

\* C17: on every document and offset, when onDefinition gives a target
\* onHover gives a hover; and when the word at the offset is none of the
\* five built-in scalar names, onHover gives null exactly when onDefinition
\* does, and the hover text starts at the line of the declaration that
\* onDefinition targets.
C17_DefinitionAndHoverAgree ==
  Answered("hover") =>
    LET target == DefinitionOfAnswered
        hover == response[1].result
        word == AnsweredWord
    IN  /\ target # Null => hover # Null
        /\ (word = Null \/ word[1] \notin BuiltinNames) =>
             /\ hover = Null <=> target = Null
             /\ target # Null =>
                  HoverStartsAtLine(hover[1].value, target[1].range.start.line)

(***************************************************************************)
(* The matches of the word pattern over a text, under SpecLocate.          *)
(***************************************************************************)
\* The matches wordPattern.exec gives one after the other from lastIndex
\* on, each exec resuming at the end of the match before.
RECURSIVE MatchesFrom(_, _)
MatchesFrom(text, lastIndex) ==
  LET match == wordPatternExec(text, lastIndex)
  IN  IF match = Null THEN <<>>
      ELSE <<match[1]>> \o MatchesFrom(text, match[1].index + Len(match[1].word))

\* The inclusive span [start, start + length] of a match.
SpanOf(match) == match.index .. (match.index + Len(match.word))

\* C18: the matches of the word pattern over a text are its maximal runs of
\* word characters, and their inclusive spans [start, start + length] are
\* pairwise disjoint: at most one span holds a given offset, and the word
\* the loop ends with is the word of that one.
C18_RunSpansAreDisjoint ==
  LET ms == MatchesFrom(locate.text, 0)
      holding == {i \in 1..Len(ms) : locate.offset \in SpanOf(ms[i])}
  IN  /\ {ms[i].index + 1 : i \in 1..Len(ms)} = RunStarts(locate.text)
      /\ \A i \in 1..Len(ms) :
           ms[i].index + Len(ms[i].word) = RunEnd(locate.text, ms[i].index + 1)
      /\ \A i, j \in 1..Len(ms) : i # j => SpanOf(ms[i]) \cap SpanOf(ms[j]) = {}
      /\ Cardinality(holding) <= 1
      /\ locate.state.done =>
           /\ locate.state.word = Null <=> holding = {}
           /\ \A i \in holding : locate.state.word = Some(ms[i].word)

\* The loop ended with the first of two runs that one character separates,
\* at the offset where the span of the first ends, one before the offset
\* where the span of the second starts.
C18_Witness ==
  /\ locate.state.done
  /\ LET ms == MatchesFrom(locate.text, 0)
     IN  /\ Len(ms) >= 2
         /\ locate.offset = ms[1].index + Len(ms[1].word)
         /\ ms[2].index = locate.offset + 1
         /\ locate.state.word = Some(ms[1].word)

(***************************************************************************)
(* The pending comment lines and the documentation, under SpecScan.        *)
(***************************************************************************)
\* The trimmed text of the line begins with the delimiter or with #.
BeginsComment(line) ==
  \/ StartsWith(Trim(line), TripleQuote)
  \/ StartsWith(Trim(line), <<"#">>)

\* At a point of the scan: the first of the pending comment lines, when
\* there is one, begins a comment; the documentation of each declaration
\* is none or a text that is not empty and whose first line begins a
\* comment; the test of onHover for documentation holds exactly of the
\* declarations whose documentation is not none.
PendingBeginsWithComment ==
  /\ scan.state.currentDoc # <<>> => BeginsComment(scan.state.currentDoc[1])
  /\ \A n \in 1..Len(scan.state.definitions) :
       LET d == scan.state.definitions[n]
       IN  /\ d.documentation # Null =>
                /\ d.documentation[1] # <<>>
                /\ BeginsComment(Split(d.documentation[1])[1])
           /\ HasDocumentation(d) <=> d.documentation # Null

\* A step of the scan that emits a declaration leaves currentDoc empty, and
\* the test of onHover for documentation holds of the declaration exactly
\* when currentDoc was not empty before the step.
EmitEmptiesPending ==
  (scan' # scan /\ scan'.state.definitions # scan.state.definitions) =>
    /\ scan'.state.currentDoc = <<>>
    /\ HasDocumentation(scan'.state.definitions[Len(scan'.state.definitions)])
         <=> scan.state.currentDoc # <<>>

\* C19: at every point of the scan the pending comment lines, when not
\* empty, begin with a line whose trimmed text begins with the delimiter or
\* with #, and they are empty right after each declaration is emitted; so
\* the documentation of a declaration is never the empty string: it is
\* none, or a text that is not empty and begins with a comment line; and
\* the test of onHover for documentation holds of exactly the declarations
\* emitted with pending comment lines.
C19_PendingBeginsWithComment ==
  /\ []PendingBeginsWithComment
  /\ [][EmitEmptiesPending]_vars

\* A declaration on the fourth line documented by a block comment of three
\* lines, the second of them a line that begins no comment; no comment line
\* is pending after it.
C19_Witness ==
  /\ scan.index = 4
  /\ scan.lines[1] = TripleQuote
  /\ ~BeginsComment(scan.lines[2])
  /\ scan.lines[3] = TripleQuote
  /\ Len(scan.state.definitions) = 1
  /\ scan.state.definitions[1].documentation = Some(Join(SubSeq(scan.lines, 1, 3)))
  /\ HasDocumentation(scan.state.definitions[1])
  /\ scan.state.currentDoc = <<>>


=============================================================================
